---- MODULE Spec2Model ----
(***************************************************************************)
(* A model of dfa-regex: lexer -> recursive-descent parser -> Thompson NFA *)
(* -> subset-construction DFA -> whole-string matcher.                     *)
(*                                                                         *)
(* A pattern or a text is a sequence of one-character strings.  An NFA or  *)
(* DFA state is its integer identifier.  HashSet values are sets, Vec      *)
(* values are sequences, and the iteration order of a HashSet or HashMap   *)
(* is a nondeterministic choice of the action that iterates.               *)
(***************************************************************************)
EXTENDS Integers, Sequences, FiniteSets, TLC

(***************************************************************************)
(* Bounds of the model.                                                    *)
(***************************************************************************)
MaxPatternLen == 3
MaxTextLen == 3

(***************************************************************************)
(* Generic helpers.                                                        *)
(***************************************************************************)
Range(f) == {f[i] : i \in DOMAIN f}

SeqsUpTo(S, n) == UNION {[1..k -> S] : k \in 0..n}

\* Every order in which the elements of a HashSet can be iterated.
Orders(S) == {f \in [1..Cardinality(S) -> S] : Range(f) = S}

(***************************************************************************)
(* lexer.rs                                                                *)
(***************************************************************************)
Character(c) == [type |-> "Character", char |-> c]
UnionOperator == [type |-> "UnionOperator", char |-> ""]
StarOperator == [type |-> "StarOperator", char |-> ""]
LeftParen == [type |-> "LeftParen", char |-> ""]
RightParen == [type |-> "RightParen", char |-> ""]
EndOfFile == [type |-> "EndOfFile", char |-> ""]

\* impl Display for Token
TokenDisplay(token) ==
    CASE token.type = "Character" -> "Character"
      [] token.type = "UnionOperator" -> "|"
      [] token.type = "StarOperator" -> "*"
      [] token.type = "LeftParen" -> "("
      [] token.type = "RightParen" -> ")"
      [] token.type = "EndOfFile" -> "EOF"

\* A faulty variant of scan: the backslash is an ordinary character.
scan_no_escape(string, pos) ==
    IF pos > Len(string)
    THEN [token |-> EndOfFile, pos |-> pos, panicked |-> FALSE]
    ELSE LET char == string[pos] IN
         [token |-> CASE char = "|" -> UnionOperator
                      [] char = "(" -> LeftParen
                      [] char = ")" -> RightParen
                      [] char = "*" -> StarOperator
                      [] OTHER -> Character(char),
          pos |-> pos + 1, panicked |-> FALSE]

\* Lexer::scan on the characters of string from position pos on (the Chars
\* iterator).  panicked: the unwrap() of line 44 found no character after a
\* backslash; the call never returns, and the token is a placeholder.
scan(string, pos) ==
    IF pos > Len(string)
    THEN [token |-> EndOfFile, pos |-> pos, panicked |-> FALSE]
    ELSE LET char == string[pos] IN
         IF char = "\\"
         THEN IF pos + 1 > Len(string)
              THEN [token |-> EndOfFile, pos |-> pos + 1, panicked |-> TRUE]
              ELSE [token |-> Character(string[pos + 1]), pos |-> pos + 2,
                    panicked |-> FALSE]
         ELSE [token |-> CASE char = "|" -> UnionOperator
                           [] char = "(" -> LeftParen
                           [] char = ")" -> RightParen
                           [] char = "*" -> StarOperator
                           [] OTHER -> Character(char),
               pos |-> pos + 1, panicked |-> FALSE]

(***************************************************************************)
(* parser.rs                                                               *)
(***************************************************************************)
NodeCharacter(c) == [type |-> "Character", char |-> c]
NodeEmpty == [type |-> "Empty"]
NodeStar(n) == [type |-> "Star", node |-> n]
NodeUnion(n1, n2) == [type |-> "Union", node1 |-> n1, node2 |-> n2]
NodeConcat(n1, n2) == [type |-> "Concat", node1 |-> n1, node2 |-> n2]

Ok(v) == [ok |-> TRUE, val |-> v]
Err(m) == [ok |-> FALSE, msg |-> m]

RECURSIVE JoinComma(_)
JoinComma(strs) ==
    IF Len(strs) = 0 THEN ""
    ELSE IF Len(strs) = 1 THEN strs[1]
    ELSE strs[1] \o ", " \o JoinComma(Tail(strs))

error_msg(expected, actual) ==
    LET exp == JoinComma([i \in DOMAIN expected |->
                            "'" \o TokenDisplay(expected[i]) \o "'"])
        act == IF actual.type = "Character"
               THEN "'" \o actual.char \o "'"
               ELSE "'" \o TokenDisplay(actual) \o "'"
    IN "Expected one of [" \o exp \o "], found " \o act

\* The parser's state: the lexer's position in the pattern, the look-ahead
\* token, and whether a scan has panicked.
\* Parser::new: the first token is scanned at construction.
ParserNew(s) ==
    LET r == scan(s, 1)
    IN [lexer |-> r.pos, look |-> r.token, panicked |-> r.panicked]

match_next(s, p, token) ==
    IF p.look = token
    THEN LET r == scan(s, p.lexer)
         IN [res |-> Ok(<<>>),
             p |-> [lexer |-> r.pos, look |-> r.token,
                    panicked |-> p.panicked \/ r.panicked]]
    ELSE [res |-> Err(error_msg(<<token>>, p.look)), p |-> p]

IsFactorStart(token) == token.type \in {"LeftParen", "Character"}

\* The five mutually recursive methods of Parser are the five arms of one
\* recursive operator, descend(rule, s, p); each method's name stands for
\* its arm.  A method returns its Result and the parser's state after it.
RECURSIVE descend(_, _, _)

\* A faulty variant of sub_expression: the '|' is never taken.
sub_expression_no_union(s, p) == descend("sequence", s, p)

sub_expression(s, p) == descend("sub_expression", s, p)
\* A faulty variant of sequence: the empty alternative is not allowed.
sequence_never_empty(s, p) == descend("sub_sequence", s, p)

sequence(s, p) == descend("sequence", s, p)
\* A faulty variant of sub_sequence: one star, nothing concatenated.
sub_sequence_single(s, p) == descend("star", s, p)

sub_sequence(s, p) == descend("sub_sequence", s, p)
star(s, p) == descend("star", s, p)
factor(s, p) == descend("factor", s, p)

descend(rule, s, p) ==
    CASE rule = "factor" ->
           \* factor := '(' subexpr ')' | Character
           IF p.look.type = "LeftParen"
           THEN LET m1 == match_next(s, p, LeftParen) IN
                IF ~m1.res.ok THEN m1
                ELSE LET node == sub_expression(s, m1.p)
                         m2 == match_next(s, node.p, RightParen)
                     IN IF ~m2.res.ok THEN m2
                        ELSE [res |-> node.res, p |-> m2.p]
           ELSE IF p.look.type = "Character"
           THEN LET m == match_next(s, p, Character(p.look.char)) IN
                IF ~m.res.ok THEN m
                ELSE [res |-> Ok(NodeCharacter(p.look.char)), p |-> m.p]
           ELSE [res |-> Err(error_msg(<<LeftParen, Character("_")>>,
                                       p.look)),
                 p |-> p]
      [] rule = "star" ->
           \* star := factor '*' | factor
           LET f == factor(s, p) IN
           IF f.p.look.type = "StarOperator"
           THEN LET m == match_next(s, f.p, StarOperator) IN
                IF ~m.res.ok THEN m
                ELSE IF ~f.res.ok THEN [res |-> f.res, p |-> m.p]
                ELSE [res |-> Ok(NodeStar(f.res.val)), p |-> m.p]
           ELSE f
      [] rule = "sub_sequence" ->
           \* sub_sequence := star sub_sequence | star
           LET st == star(s, p) IN
           IF IsFactorStart(st.p.look)
           THEN IF ~st.res.ok THEN st
                ELSE LET rest == sub_sequence(s, st.p) IN
                     IF ~rest.res.ok THEN rest
                     ELSE [res |-> Ok(NodeConcat(st.res.val, rest.res.val)),
                           p |-> rest.p]
           ELSE st
      [] rule = "sequence" ->
           \* sequence := sub_sequence | ''
           IF IsFactorStart(p.look)
           THEN sub_sequence(s, p)
           ELSE [res |-> Ok(NodeEmpty), p |-> p]
      [] rule = "sub_expression" ->
           \* sub_expression := sequence '|' sub_expression | sequence
           LET sq == sequence(s, p) IN
           IF sq.p.look.type = "UnionOperator"
           THEN LET m == match_next(s, sq.p, UnionOperator) IN
                IF ~m.res.ok THEN m
                ELSE IF ~sq.res.ok THEN [res |-> sq.res, p |-> m.p]
                ELSE LET rest == sub_expression(s, m.p) IN
                     IF ~rest.res.ok THEN rest
                     ELSE [res |-> Ok(NodeUnion(sq.res.val, rest.res.val)),
                           p |-> rest.p]
           ELSE sq

\* expression := sub_expression EOF
expression(s, p) ==
    LET e == sub_expression(s, p)
        m == match_next(s, e.p, EndOfFile)
    IN IF ~m.res.ok THEN m ELSE [res |-> e.res, p |-> m.p]

\* Parser::new(Lexer::new(pattern)).parse(): "ok" with the tree, "err" with
\* the message, or "panic" when a scan panicked on the way.
parse(s) ==
    LET r == expression(s, ParserNew(s)) IN
    IF r.p.panicked THEN [kind |-> "panic"]
    ELSE IF r.res.ok THEN [kind |-> "ok", node |-> r.res.val]
    ELSE [kind |-> "err", msg |-> r.res.msg]

(***************************************************************************)
(* automaton/nfa.rs                                                        *)
(***************************************************************************)
\* Option<char>: None is the label of an epsilon edge.
None == <<>>
Some(c) == <<c>>

\* nfa::Context
NfaContextNew == [state_count |-> 0]

\* A faulty variant of new_state: the counter is not advanced.
new_state_same_id(context) ==
    [state |-> context.state_count, context |-> context]

new_state(context) ==
    [state |-> context.state_count,
     context |-> [state_count |-> context.state_count + 1]]

\* The transition table HashMap<NFAState, HashMap<Option<char>,
\* HashSet<NFAState>>> is the set of its edges <<from, label, to>>: an entry
\* exists only once an edge was inserted under it.
NfaNew(start, accepts) ==
    [start |-> start, accepts |-> accepts, transition |-> {}]

insert_transition(nfa, from, to, char) ==
    [nfa EXCEPT !.transition = @ \cup {<<from, char, to>>}]

add_transition(nfa, from, char, to) ==
    insert_transition(nfa, from, to, Some(char))

add_empty_transition(nfa, from, to) ==
    insert_transition(nfa, from, to, None)

merge_transition(nfa, other) ==
    [nfa EXCEPT !.transition = @ \cup other.transition]

next_chars(nfa, state) ==
    {e[2] : e \in {t \in nfa.transition : t[1] = state}}

next_states(nfa, state, char) ==
    {e[3] : e \in {t \in nfa.transition : t[1] = state /\ t[2] = char}}

\* A faulty variant of AddEmptyFromAll: the target gets an epsilon edge to
\* itself as well.
AddEmptyFromAllAndTarget(nfa, accepts, to) ==
    [nfa EXCEPT !.transition =
       @ \cup {<<x, None, to>> : x \in accepts \cup {to}}]

\* for accept in accepts { nfa = nfa.add_empty_transition(accept, to) }
AddEmptyFromAll(nfa, accepts, to) ==
    [nfa EXCEPT !.transition = @ \cup {<<x, None, to>> : x \in accepts}]

\* A faulty variant of ConcatAccepts: the left fragment's accept states stay
\* accepting.
ConcatAcceptsKeepLeft(frag1, frag2) == frag1.accepts \cup frag2.accepts

\* The accept set of the Concat arm.
ConcatAccepts(frag1, frag2) == frag2.accepts

\* A faulty variant of StarAccepts: the fresh start state is not accepting.
StarAcceptsNoStart(frag, start) == frag.accepts

\* The accept set of the Star arm.
StarAccepts(frag, start) == frag.accepts \cup {start}

RECURSIVE assemble(_, _)
\* Node::assemble: the fragment of node and the context after it.
assemble(node, context) ==
    CASE node.type = "Character" ->
           LET s == new_state(context)
               a == new_state(s.context)
           IN [nfa |-> add_transition(NfaNew(s.state, {a.state}),
                                      s.state, node.char, a.state),
               context |-> a.context]
      [] node.type = "Empty" ->
           LET s == new_state(context)
               a == new_state(s.context)
           IN [nfa |-> add_empty_transition(NfaNew(s.state, {a.state}),
                                            s.state, a.state),
               context |-> a.context]
      [] node.type = "Star" ->
           LET f == assemble(node.node, context)
               frag == f.nfa
               s == new_state(f.context)
               nfa0 == add_empty_transition(
                         merge_transition(
                           NfaNew(s.state, StarAccepts(frag, s.state)), frag),
                         s.state, frag.start)
           IN [nfa |-> AddEmptyFromAll(nfa0, frag.accepts, frag.start),
               context |-> s.context]
      [] node.type = "Union" ->
           LET f1 == assemble(node.node1, context)
               f2 == assemble(node.node2, f1.context)
               frag1 == f1.nfa
               frag2 == f2.nfa
               s == new_state(f2.context)
           IN [nfa |-> add_empty_transition(
                         add_empty_transition(
                           merge_transition(
                             merge_transition(
                               NfaNew(s.state,
                                      frag1.accepts \cup frag2.accepts),
                               frag1),
                             frag2),
                           s.state, frag1.start),
                         s.state, frag2.start),
               context |-> s.context]
      [] node.type = "Concat" ->
           LET f1 == assemble(node.node1, context)
               f2 == assemble(node.node2, f1.context)
               frag1 == f1.nfa
               frag2 == f2.nfa
               fragment == merge_transition(
                             merge_transition(
                               NfaNew(frag1.start,
                                      ConcatAccepts(frag1, frag2)),
                               frag1),
                             frag2)
           IN [nfa |-> AddEmptyFromAll(fragment, frag1.accepts, frag2.start),
               context |-> f2.context]

from_node(node) == assemble(node, NfaContextNew).nfa

(***************************************************************************)
(* automaton/dfa.rs                                                        *)
(***************************************************************************)
RECURSIVE InsertSorted(_, _)
InsertSorted(x, sorted) ==
    IF sorted = <<>> THEN <<x>>
    ELSE IF x <= Head(sorted) THEN <<x>> \o sorted
    ELSE <<Head(sorted)>> \o InsertSorted(x, Tail(sorted))

RECURSIVE sort(_)
\* Vec::sort: ascending, equal elements kept.
sort(states) ==
    IF states = <<>> THEN <<>>
    ELSE InsertSorted(Head(states), sort(Tail(states)))

\* The elements of a HashSet collected into a Vec.  The order is the set's
\* iteration order; every consumer of such a Vec either sorts it (get_state)
\* or folds it into HashSets (the transition_map loop), so the model keeps
\* the ascending order as the representative.
RECURSIVE SetToVec(_)
SetToVec(S) ==
    IF S = {} THEN <<>>
    ELSE LET m == CHOOSE x \in S : \A y \in S : x <= y
         IN <<m>> \o SetToVec(S \ {m})

\* dfa::Context: state_map is the set of its entries <<key, DFAState>>.
DfaContextNew == [state_count |-> 0, state_map |-> {}]

\* Context::get_state: the identifier of the list, and the context after.
get_state(context, states) ==
    LET sorted_states == sort(states) IN
    IF \E e \in context.state_map : e[1] = sorted_states
    THEN [state |-> (CHOOSE e \in context.state_map : e[1] = sorted_states)[2],
          context |-> context]
    ELSE [state |-> context.state_count,
          context |-> [state_count |-> context.state_count + 1,
                       state_map |-> context.state_map
                                       \cup {<<sorted_states,
                                               context.state_count>>}]]

\* A faulty variant of closure_walk: the epsilon successors of the first
\* states are added, theirs are not.
closure_walk_one_level(nfa, reached, stack) ==
    reached \cup UNION {next_states(nfa, s, None) : s \in stack}

RECURSIVE closure_walk(_, _, _)
\* The loop of lines 86-90: pop a state, push those of its epsilon successors
\* that next_states does not hold yet, add all of them to next_states.
\* reached is the set of the elements of the Vec next_states and stack the set
\* of the states still to pop: the loop ends with the same elements
\* whichever state is popped first.
closure_walk(nfa, reached, stack) ==
    IF stack = {} THEN reached
    ELSE LET state == CHOOSE x \in stack : \A y \in stack : x <= y
             next == next_states(nfa, state, None)
         IN closure_walk(nfa, reached \cup next,
                         (stack \ {state}) \cup (next \ reached))

\* A faulty variant of symbol_targets: the one-symbol successors, not closed.
symbol_targets_no_closure(nfa, look_state, char) ==
    next_states(nfa, look_state, Some(char))

\* Lines 76-90: what one member of look_states contributes under char: its
\* char-successors chained with its own epsilon successors, closed under
\* epsilon edges.
symbol_targets(nfa, look_state, char) ==
    LET first == next_states(nfa, look_state, Some(char))
                   \cup next_states(nfa, look_state, None)
    IN closure_walk(nfa, first,
                    {s \in first : next_states(nfa, s, None) # {}})

\* A faulty variant of transition_map: an entry for every symbol of the NFA,
\* also where no member of look_states has an edge for it.
transition_map_every_symbol(nfa, look_states) ==
    LET chars == {e[2][1] : e \in {e \in nfa.transition : e[2] # None}}
    IN [char \in chars |->
          UNION {symbol_targets(nfa, q, char) :
                   q \in {q \in Range(look_states) :
                            Some(char) \in next_chars(nfa, q)}}]

\* Lines 69-96: transition_map[char], for every char some member of
\* look_states has an edge for.
transition_map(nfa, look_states) ==
    LET chars == {l[1] : l \in {l \in UNION {next_chars(nfa, q) :
                                     q \in Range(look_states)} : l # None}}
    IN [char \in chars |->
          UNION {symbol_targets(nfa, q, char) :
                   q \in {q \in Range(look_states) :
                            Some(char) \in next_chars(nfa, q)}}]

\* HashMap::insert on the DFA's table, the set of its entries
\* <<from, char, to>>.
TableInsert(table, from, char, to) ==
    {e \in table : ~(e[1] = from /\ e[2] = char)} \cup {<<from, char, to>>}

\* A faulty variant of record_transitions: only the entry iterated first is
\* recorded.
record_transitions_first_entry(order, tmap, form_state, seen, b) ==
    IF order = <<>> THEN b
    ELSE LET char == Head(order)
             targets == tmap[char]
             g == get_state(b.context, SetToVec(targets))
         IN [context |-> g.context,
             waiting |-> IF g.state \notin seen
                         THEN Append(b.waiting, SetToVec(targets))
                         ELSE b.waiting,
             ret |-> TableInsert(b.ret, form_state, char, g.state)]

RECURSIVE record_transitions(_, _, _, _, _)
\* Lines 99-106, with transition_map iterated in the order `order`: b holds
\* the builder's context, waiting and ret.
record_transitions(order, tmap, form_state, seen, b) ==
    IF order = <<>> THEN b
    ELSE LET char == Head(order)
             targets == tmap[char]
             g == get_state(b.context, SetToVec(targets))
         IN record_transitions(
              Tail(order), tmap, form_state, seen,
              [context |-> g.context,
               waiting |-> IF g.state \notin seen
                           THEN Append(b.waiting, SetToVec(targets))
                           ELSE b.waiting,
               ret |-> TableInsert(b.ret, form_state, char, g.state)])

\* A faulty variant of accepting_states: only the first member of a set is
\* looked at.
accepting_states_first_member(nfa, context) ==
    {e[2] : e \in {e \in context.state_map :
                     e[1] # <<>> /\ e[1][1] \in nfa.accepts}}

\* Lines 111-119.
accepting_states(nfa, context) ==
    {e[2] : e \in {e \in context.state_map :
                     \E i \in DOMAIN e[1] : e[1][i] \in nfa.accepts}}

\* DeterministicFiniteAutomaton::next_state: Option<DFAState>.
next_state(dfa, state, char) ==
    IF \E e \in dfa.transition : e[1] = state /\ e[2] = char
    THEN <<(CHOOSE e \in dfa.transition : e[1] = state /\ e[2] = char)[3]>>
    ELSE <<>>

(***************************************************************************)
(* lib.rs                                                                  *)
(***************************************************************************)
RECURSIVE matches_from_skipping(_, _, _, _)
\* A faulty variant of matches_from: a symbol with no transition is skipped.
matches_from_skipping(dfa, text, i, current_state) ==
    IF i > Len(text)
    THEN [result |-> current_state \in dfa.accepts, steps |-> i - 1,
          state |-> current_state]
    ELSE LET n == next_state(dfa, current_state, text[i]) IN
         IF n # <<>>
         THEN matches_from_skipping(dfa, text, i + 1, n[1])
         ELSE matches_from_skipping(dfa, text, i + 1, current_state)

RECURSIVE matches_from(_, _, _, _)
\* The loop of Regex::matches from the i-th symbol on: the value returned,
\* the number of transitions followed, and the state the loop ended in.
matches_from(dfa, text, i, current_state) ==
    IF i > Len(text)
    THEN [result |-> current_state \in dfa.accepts, steps |-> i - 1,
          state |-> current_state]
    ELSE LET n == next_state(dfa, current_state, text[i]) IN
         IF n # <<>>
         THEN matches_from(dfa, text, i + 1, n[1])
         ELSE [result |-> FALSE, steps |-> i - 1, state |-> current_state]

\* Regex::matches
matches(dfa, text) == matches_from(dfa, text, 1, dfa.start)

(***************************************************************************)
(* The inputs the model draws from.                                        *)
(***************************************************************************)
PatternChars == {"a", "b", "|", "*", "(", ")", "\\"}
TextChars == {"a", "b", "*", "\\"}

\* Patterns of the repository's tests and of the specification's scenarios.
ScenarioPatterns ==
    { <<"(", "a", "b", "|", "b", "a", ")", "+">>,
      <<"(", "a", "b", "|", "b", "a", ")",
        "(", "a", "b", "|", "b", "a", ")", "*">>,
      <<"a", "(", "b", "|", ")">>,
      <<"(", "a", "b", ")", "*">>,
      <<"(", "a", "|", "b", ")", "*">>,
      <<"(", "a", "*", ")", "*">>,
      <<"a", "\\", "c">>,
      <<"a", "\\", "\\", "c">>,
      <<"a", "b", "(", "c", "d">>,
      <<"e", "(", "*", ")", "f">>,
      <<")", "h">>,
      <<"i", "|", "*">>,
      <<"a", "|", "(", "b", "c", ")", "*">>,
      <<"(", "a", "|", ")", "*", "b">>,
      <<"a", "b", "c">>,
      <<"a", "b", "c", "d">> }

Patterns == SeqsUpTo(PatternChars, MaxPatternLen) \cup ScenarioPatterns

ScenarioTexts ==
    { <<"a", "b">>, <<"b", "a", "a", "b", "b", "a">>,
      <<"b", "a", "b", "a", "b">>, <<"a", "b", "b", "a">>,
      <<"a", "b", "a", "b">>, <<"a", "c">>, <<"a", "\\", "c">>,
      <<"a", "b", "+">>, <<"+">> }
      \cup {<<x>> : x \in PatternChars}
      \cup {<<"a", x>> : x \in PatternChars}

Texts == SeqsUpTo(TextChars, MaxTextLen) \cup ScenarioTexts

(***************************************************************************)
(* The state.                                                              *)
(***************************************************************************)
VARIABLES
    pc,             \* where the program is
    pattern,        \* the argument of Regex::new
    parsed,         \* None, or Some(what Parser::parse ended with)
    nfa,            \* None, or Some(the NFA from_nfa consumes)
    context,        \* from_nfa: the dfa::Context
    ret,            \* from_nfa: the Vec of the start closure (start_states)
    stack,          \* from_nfa: the stack of the start closure walk
    start,          \* from_nfa: None, or Some(the DFA start state)
    waiting,        \* from_nfa: the work-list
    visited,        \* from_nfa: the visited set
    transition,     \* from_nfa: the table being built (ret of lines 61-108)
    dfa,            \* None, or Some(the finished DFA of the Regex)
    text,           \* the argument of the last Regex::matches
    result,         \* what it returned
    steps,          \* how many transitions it followed
    current_state,  \* the state its loop ended in
    calls           \* the calls made on a shared object: get_state calls on
                    \* a bare Context, or matches calls in flight on a Regex

buildVars == <<context, ret, stack, start, waiting, visited, transition>>
matchVars == <<text, result, steps, current_state>>
vars == <<pc, pattern, parsed, nfa, buildVars, dfa, matchVars, calls>>

Blank ==
    /\ parsed = None
    /\ nfa = None
    /\ context = DfaContextNew
    /\ ret = <<>>
    /\ stack = <<>>
    /\ start = None
    /\ waiting = <<>>
    /\ visited = {}
    /\ transition = {}
    /\ dfa = None
    /\ text = <<>>
    /\ result = FALSE
    /\ steps = 0
    /\ current_state = 0
    /\ calls = <<>>

\* Before Regex::new(pattern).
Init ==
    /\ pc = "new"
    /\ pattern \in Patterns
    /\ Blank

(***************************************************************************)
(* DeterministicFiniteAutomaton::from_nfa, one action per loop iteration.  *)
(***************************************************************************)
\* Lines 43-51: the context, and the start closure's ret and stack; the stack
\* holds the epsilon successors of nfa.start in the HashSet's order.
BeginFromNfa(n) ==
    /\ context' = DfaContextNew
    /\ ret' = <<n.start>>
    /\ stack' \in Orders(next_states(n, n.start, None))
    /\ pc' = "closure"

\* A faulty variant of StartClosureStep: the successors are pushed whether
\* ret holds them or not.
StartClosureStepRevisit ==
    /\ pc = "closure"
    /\ stack # <<>>
    /\ LET state == stack[Len(stack)]
           next == next_states(nfa[1], state, None)
       IN /\ ret' = Append(ret, state)
          /\ \E order \in Orders(next) :
               stack' = SubSeq(stack, 1, Len(stack) - 1) \o order
    /\ UNCHANGED <<pc, pattern, parsed, nfa, context, start, waiting, visited,
                   transition, dfa, matchVars, calls>>

\* Lines 52-56: one iteration of the start closure walk.
StartClosureStep ==
    /\ pc = "closure"
    /\ stack # <<>>
    /\ LET state == stack[Len(stack)]
           pushed == Append(ret, state)
           next == next_states(nfa[1], state, None)
       IN /\ ret' = pushed
          /\ \E order \in Orders({s \in next : s \notin Range(pushed)}) :
               stack' = SubSeq(stack, 1, Len(stack) - 1) \o order
    /\ UNCHANGED <<pc, pattern, parsed, nfa, context, start, waiting, visited,
                   transition, dfa, matchVars, calls>>

\* Lines 57-63: the start state, and the work-list holding start_states.
StartClosureDone ==
    /\ pc = "closure"
    /\ stack = <<>>
    /\ LET g == get_state(context, ret)
       IN /\ start' = Some(g.state)
          /\ context' = g.context
    /\ waiting' = <<ret>>
    /\ visited' = {}
    /\ transition' = {}
    /\ pc' = "explore"
    /\ UNCHANGED <<pattern, parsed, nfa, ret, stack, dfa, matchVars, calls>>

\* Lines 64-107: one iteration of the work-list loop.
Expand ==
    /\ pc = "explore"
    /\ waiting # <<>>
    /\ LET look_states == waiting[Len(waiting)]
           g1 == get_state(context, look_states)
           seen == visited \cup {g1.state}
           tmap == transition_map(nfa[1], look_states)
           g2 == get_state(g1.context, look_states)
       IN \E order \in Orders(DOMAIN tmap) :
            LET b == record_transitions(
                       order, tmap, g2.state, seen,
                       [context |-> g2.context,
                        waiting |-> SubSeq(waiting, 1, Len(waiting) - 1),
                        ret |-> transition])
            IN /\ visited' = seen
               /\ context' = b.context
               /\ waiting' = b.waiting
               /\ transition' = b.ret
    /\ UNCHANGED <<pc, pattern, parsed, nfa, ret, stack, start, dfa,
                   matchVars, calls>>

\* Lines 111-125: the accepting states, and the DFA returned.
ComputeAccepts ==
    /\ pc = "explore"
    /\ waiting = <<>>
    /\ dfa' = Some([start |-> start[1],
                    accepts |-> accepting_states(nfa[1], context),
                    transition |-> transition])
    /\ pc' = "ready"
    /\ UNCHANGED <<pattern, parsed, nfa, buildVars, matchVars, calls>>

(***************************************************************************)
(* Regex                                                                   *)
(***************************************************************************)
\* Regex::new up to the first loop of from_nfa: the parse, and on Ok the NFA
\* and the start of from_nfa.  An Err is returned as it is; a panic ends the
\* call without a value.
RegexNew ==
    /\ pc = "new"
    /\ LET r == parse(pattern) IN
       /\ parsed' = Some(r)
       /\ IF r.kind = "ok"
          THEN /\ nfa' = Some(from_node(r.node))
               /\ BeginFromNfa(from_node(r.node))
          ELSE /\ pc' = r.kind
               /\ UNCHANGED <<nfa, context, ret, stack>>
    /\ UNCHANGED <<pattern, start, waiting, visited, transition, dfa,
                   matchVars, calls>>

\* Regex::matches(text) on the compiled Regex.
Matches ==
    /\ pc = "ready"
    /\ \E t \in Texts :
         LET run == matches(dfa[1], t)
         IN /\ text' = t
            /\ result' = run.result
            /\ steps' = run.steps
            /\ current_state' = run.state
    /\ pc' = "matched"
    /\ UNCHANGED <<pattern, parsed, nfa, buildVars, dfa, calls>>

\* The caller drops the result; the Regex is ready for the next call.
DropResult ==
    /\ pc = "matched"
    /\ text' = <<>>
    /\ result' = FALSE
    /\ steps' = 0
    /\ current_state' = 0
    /\ pc' = "ready"
    /\ UNCHANGED <<pattern, parsed, nfa, buildVars, dfa, calls>>

Next ==
    \/ RegexNew
    \/ StartClosureStep
    \/ StartClosureDone
    \/ Expand
    \/ ComputeAccepts
    \/ Matches
    \/ DropResult

Spec == Init /\ [][Next]_vars

(***************************************************************************)
(* SpecNfa: from_nfa on an NFA built with new, add_transition and          *)
(* add_empty_transition.                                                   *)
(***************************************************************************)
MaxNfaState == 2
MaxEdges == 3

NfaStates == 0..MaxNfaState
NfaChars == {"a", "b"}
NfaTexts == SeqsUpTo(NfaChars, MaxTextLen)

\* An NFA whose epsilon edges form a diamond (0 to 2 directly and through 1)
\* and whose symbol edge leads back to the start state.
DiamondNfa ==
    add_transition(
      add_empty_transition(
        add_empty_transition(
          add_empty_transition(NfaNew(0, {2}), 0, 1), 0, 2), 1, 2),
      2, "a", 0)

\* The NFA of tests::dfa_from_nfa_complex.
ComplexNfa ==
    add_empty_transition(
      add_empty_transition(
        add_transition(
          add_transition(
            add_empty_transition(
              add_empty_transition(
                add_transition(NfaNew(0, {6}), 0, "x", 1), 1, 2), 1, 5),
            2, "y", 3),
          5, "z", 6),
        3, 2),
      3, 5)

ScenarioNfas == {DiamondNfa, ComplexNfa}

\* The edges add_transition and add_empty_transition are called with.
EdgePool ==
    (NfaStates \X ({None} \cup {Some(c) : c \in NfaChars}) \X NfaStates)
      \cup UNION {sc.transition : sc \in ScenarioNfas}

\* The NFAs the model builds: those of at most MaxEdges edges over
\* NfaStates and NfaChars, and the scenarios with every NFA on the way to
\* one.
Buildable(n) ==
    \/ /\ Cardinality(n.transition) <= MaxEdges
       /\ n.start \in NfaStates
       /\ n.accepts \subseteq NfaStates
       /\ n.transition
            \subseteq (NfaStates \X ({None} \cup {Some(c) : c \in NfaChars})
                         \X NfaStates)
    \/ \E sc \in ScenarioNfas :
          /\ n.start = sc.start
          /\ n.accepts = sc.accepts
          /\ n.transition \subseteq sc.transition

\* NondeterministicFiniteAutomaton::new(start, accepts)
InitNfa ==
    /\ pc = "nfa"
    /\ pattern = <<>>
    /\ parsed = None
    /\ \/ \E s \in NfaStates, acc \in SUBSET NfaStates :
             nfa = Some(NfaNew(s, acc))
       \/ \E sc \in ScenarioNfas : nfa = Some(NfaNew(sc.start, sc.accepts))
    /\ context = DfaContextNew
    /\ ret = <<>>
    /\ stack = <<>>
    /\ start = None
    /\ waiting = <<>>
    /\ visited = {}
    /\ transition = {}
    /\ dfa = None
    /\ text = <<>>
    /\ result = FALSE
    /\ steps = 0
    /\ current_state = 0
    /\ calls = <<>>

\* add_transition(from, char, to) with an edge of the pool, while the NFA
\* stays within the bounds or within a scenario.
AddTransition ==
    /\ pc = "nfa"
    /\ \E e \in {e \in EdgePool : e[2] # None} :
         LET n == add_transition(nfa[1], e[1], e[2][1], e[3])
         IN /\ n # nfa[1]
            /\ Buildable(n)
            /\ nfa' = Some(n)
    /\ UNCHANGED <<pc, pattern, parsed, buildVars, dfa, matchVars, calls>>

\* add_empty_transition(from, to), likewise.
AddEmptyTransition ==
    /\ pc = "nfa"
    /\ \E e \in {e \in EdgePool : e[2] = None} :
         LET n == add_empty_transition(nfa[1], e[1], e[3])
         IN /\ n # nfa[1]
            /\ Buildable(n)
            /\ nfa' = Some(n)
    /\ UNCHANGED <<pc, pattern, parsed, buildVars, dfa, matchVars, calls>>

\* DeterministicFiniteAutomaton::from_nfa(nfa) up to its first loop.
FromNfa ==
    /\ pc = "nfa"
    /\ BeginFromNfa(nfa[1])
    /\ UNCHANGED <<pattern, parsed, nfa, start, waiting, visited, transition,
                   dfa, matchVars, calls>>

NextNfa ==
    \/ AddTransition
    \/ AddEmptyTransition
    \/ FromNfa
    \/ StartClosureStep
    \/ StartClosureDone
    \/ Expand
    \/ ComputeAccepts

SpecNfa == InitNfa /\ [][NextNfa]_vars

(***************************************************************************)
(* SpecCtx: get_state calls on one dfa::Context (tests::dfa_context).      *)
(***************************************************************************)
MaxCalls == 3
MaxListLen == 3

StateLists == SeqsUpTo(NfaStates, MaxListLen)

\* Context::new()
InitCtx ==
    /\ pc = "ctx"
    /\ pattern = <<>>
    /\ Blank

\* context.get_state(&states); calls records the argument, the value and
\* the context's state_count after the call.
GetState ==
    /\ pc = "ctx"
    /\ Len(calls) < MaxCalls
    /\ \E states \in StateLists :
         LET g == get_state(context, states)
         IN /\ context' = g.context
            /\ calls' = Append(calls, [states |-> states, state |-> g.state,
                                        count |-> g.context.state_count])
    /\ UNCHANGED <<pc, pattern, parsed, nfa, ret, stack, start, waiting,
                   visited, transition, dfa, matchVars>>

NextCtx == GetState

SpecCtx == InitCtx /\ [][NextCtx]_vars

(***************************************************************************)
(* SpecReaders: several Regex::matches calls in flight on one compiled     *)
(* Regex, each advancing one symbol at a time, in any interleaving.  Here  *)
(* calls maps each reader to its call.                                     *)
(***************************************************************************)
Readers == {"r1", "r2"}
ReaderPatterns ==
    { <<"(", "a", "b", "|", "b", "a", ")",
        "(", "a", "b", "|", "b", "a", ")", "*">>,
      <<"a", "(", "b", "|", ")">>,
      <<"(", "a", "b", ")", "*">>,
      <<"(", "a", "|", "b", ")", "*">> }
ReaderTexts == SeqsUpTo({"a", "b"}, MaxTextLen)

\* A reader with no call in flight.
NoCall ==
    [status |-> "idle", text |-> <<>>, i |-> 1, current_state |-> 0,
     result |-> FALSE]

\* A faulty variant of match_step: a symbol with no transition is skipped.
match_step_skipping(d, call) ==
    IF call.i > Len(call.text)
    THEN [call EXCEPT !.status = "done",
                      !.result = call.current_state \in d.accepts]
    ELSE LET n == next_state(d, call.current_state, call.text[call.i]) IN
         IF n # <<>>
         THEN [call EXCEPT !.current_state = n[1], !.i = @ + 1]
         ELSE [call EXCEPT !.i = @ + 1]

\* Regex::matches, one iteration of its loop or the return after it, on the
\* call's own current_state and position.
match_step(d, call) ==
    IF call.i > Len(call.text)
    THEN [call EXCEPT !.status = "done",
                      !.result = call.current_state \in d.accepts]
    ELSE LET n == next_state(d, call.current_state, call.text[call.i]) IN
         IF n # <<>>
         THEN [call EXCEPT !.current_state = n[1], !.i = @ + 1]
         ELSE [call EXCEPT !.status = "done", !.result = FALSE]

InitReaders ==
    /\ pc = "new"
    /\ pattern \in ReaderPatterns
    /\ parsed = None
    /\ nfa = None
    /\ context = DfaContextNew
    /\ ret = <<>>
    /\ stack = <<>>
    /\ start = None
    /\ waiting = <<>>
    /\ visited = {}
    /\ transition = {}
    /\ dfa = None
    /\ text = <<>>
    /\ result = FALSE
    /\ steps = 0
    /\ current_state = 0
    /\ calls = [r \in Readers |-> NoCall]

\* A reader calls matches(text): line 23.
ReaderCall ==
    /\ pc = "ready"
    /\ \E r \in Readers, t \in ReaderTexts :
         /\ calls[r].status = "idle"
         /\ calls' = [calls EXCEPT ![r] =
                        [status |-> "running", text |-> t, i |-> 1,
                         current_state |-> dfa[1].start, result |-> FALSE]]
    /\ UNCHANGED <<pc, pattern, parsed, nfa, buildVars, dfa, matchVars>>

\* A call in flight takes its next step: lines 24-31.
ReaderStep ==
    /\ pc = "ready"
    /\ \E r \in Readers :
         /\ calls[r].status = "running"
         /\ calls' = [calls EXCEPT ![r] = match_step(dfa[1], calls[r])]
    /\ UNCHANGED <<pc, pattern, parsed, nfa, buildVars, dfa, matchVars>>

\* The caller takes the value returned; the reader may call again.
ReaderReturn ==
    /\ pc = "ready"
    /\ \E r \in Readers :
         /\ calls[r].status = "done"
         /\ calls' = [calls EXCEPT ![r] = NoCall]
    /\ UNCHANGED <<pc, pattern, parsed, nfa, buildVars, dfa, matchVars>>

NextReaders ==
    \/ RegexNew
    \/ StartClosureStep
    \/ StartClosureDone
    \/ Expand
    \/ ComputeAccepts
    \/ ReaderCall
    \/ ReaderStep
    \/ ReaderReturn

SpecReaders == InitReaders /\ [][NextReaders]_vars

(***************************************************************************)
(* Reference semantics the claims are stated against.                      *)
(***************************************************************************)
RECURSIVE InLang(_, _)
\* Whether the string s is in the language the tree denotes.
InLang(node, s) ==
    CASE node.type = "Character" -> s = <<node.char>>
      [] node.type = "Empty" -> s = <<>>
      [] node.type = "Union" -> InLang(node.node1, s) \/ InLang(node.node2, s)
      [] node.type = "Concat" ->
           \E k \in 0..Len(s) :
              /\ InLang(node.node1, SubSeq(s, 1, k))
              /\ InLang(node.node2, SubSeq(s, k + 1, Len(s)))
      [] node.type = "Star" ->
           \/ s = <<>>
           \/ \E k \in 1..Len(s) :
                 /\ InLang(node.node, SubSeq(s, 1, k))
                 /\ InLang(node, SubSeq(s, k + 1, Len(s)))

RECURSIVE EpsClosure(_, _)
\* The least set holding S and closed under the NFA's epsilon edges.
EpsClosure(n, S) ==
    LET more == S \cup {e[3] : e \in {t \in n.transition :
                                        t[1] \in S /\ t[2] = None}}
    IN IF more = S THEN S ELSE EpsClosure(n, more)

\* The states one c-edge away from a member of S.
Move(n, S, c) ==
    {e[3] : e \in {t \in n.transition : t[1] \in S /\ t[2] = Some(c)}}

RECURSIVE NfaRun(_, _, _)
\* The states the NFA can be in after the first i symbols of t.
NfaRun(n, t, i) ==
    IF i = 0 THEN EpsClosure(n, {n.start})
    ELSE EpsClosure(n, Move(n, NfaRun(n, t, i - 1), t[i]))

NfaAccepts(n, t) == NfaRun(n, t, Len(t)) \cap n.accepts # {}

RECURSIVE Delta(_, _, _)
\* The DFA state after the first i symbols of t: None once a symbol had no
\* transition.
Delta(d, t, i) ==
    IF i = 0 THEN Some(d.start)
    ELSE LET prev == Delta(d, t, i - 1)
         IN IF prev = None THEN None ELSE next_state(d, prev[1], t[i])

\* The set of NFA states a DFA state stands for in the builder's state_map.
SetsOf(ctx, id) == {Range(e[1]) : e \in {e \in ctx.state_map : e[2] = id}}

RECURSIVE Skeleton(_, _)
\* The pattern from its i-th character on with every literal, escaped or
\* not, written "c": what is left are the structural characters.
Skeleton(s, i) ==
    IF i > Len(s) THEN <<>>
    ELSE IF s[i] = "\\"
    THEN IF i + 1 > Len(s) THEN <<>> ELSE <<"c">> \o Skeleton(s, i + 2)
    ELSE IF s[i] \in {"(", ")", "|", "*"}
    THEN <<s[i]>> \o Skeleton(s, i + 1)
    ELSE <<"c">> \o Skeleton(s, i + 1)

Count(sk, ch, n) == Cardinality({i \in 1..n : sk[i] = ch})

\* A ')' with no '(' open before it, or a '(' never closed.
UnbalancedParens(sk) ==
    \/ \E n \in 1..Len(sk) : Count(sk, ")", n) > Count(sk, "(", n)
    \/ Count(sk, "(", Len(sk)) # Count(sk, ")", Len(sk))

\* A '*' that follows no factor.
StarWithoutOperand(sk) ==
    \E i \in 1..Len(sk) :
       /\ sk[i] = "*"
       /\ (i = 1 \/ sk[i - 1] \in {"(", "|", "*"})

Malformed(s) ==
    UnbalancedParens(Skeleton(s, 1)) \/ StarWithoutOperand(Skeleton(s, 1))

RECURSIVE LoneBackslash(_, _)
\* Whether the pattern, read from its i-th character on, ends in a backslash
\* that escapes nothing.
LoneBackslash(s, i) ==
    IF i > Len(s) THEN FALSE
    ELSE IF s[i] = "\\"
    THEN IF i + 1 > Len(s) THEN TRUE ELSE LoneBackslash(s, i + 2)
    ELSE LoneBackslash(s, i + 1)

(***************************************************************************)
(* The claims.                                                             *)
(***************************************************************************)
\* C1: for every pattern that parses to a tree T and every text s,
\* Regex::new(pattern).matches(s) is true exactly when s is in the language
\* T denotes.
C1_RoundTrip ==
    pc = "matched" => (result <=> InLang(parsed[1].node, text))

\* C1's case: a text of three or more symbols matched against a compiled
\* concatenation, and accepted.
C1_Witness ==
    /\ pc = "matched"
    /\ parsed[1].node.type = "Concat"
    /\ Len(text) >= 3
    /\ result

\* C2: the DFA from_nfa returns accepts exactly the strings the NFA accepts,
\* and each recorded transition (Q, c) -> R has R equal to the
\* epsilon-closure of the states one c-edge away from a member of Q.
C2_DfaEquivalent ==
    pc = "ready" =>
      /\ \A t \in NfaTexts :
            matches(dfa[1], t).result <=> NfaAccepts(nfa[1], t)
      /\ \A e \in dfa[1].transition :
            \A Q \in SetsOf(context, e[1]) :
               EpsClosure(nfa[1], Move(nfa[1], Q, e[2]))
                 \in SetsOf(context, e[3])

\* C3: matches starts in the start state, follows one transition per symbol
\* in order, returns false at the first symbol without a transition whatever
\* follows it, and after the last symbol returns whether the state reached is
\* accepting; a text is accepted only when the whole of it is in the
\* language.
C3_WholeString ==
    pc = "matched" =>
      /\ steps \in 0..Len(text)
      /\ \A i \in 0..steps : Delta(dfa[1], text, i) # None
      /\ current_state = Delta(dfa[1], text, steps)[1]
      /\ steps < Len(text) =>
           /\ Delta(dfa[1], text, steps + 1) = None
           /\ ~result
      /\ steps = Len(text) => (result <=> current_state \in dfa[1].accepts)
      /\ result => InLang(parsed[1].node, text)

\* C3's case: a text whose proper prefix is accepted by the DFA and whose
\* next symbol has no transition, with more symbols after it.
C3_Witness ==
    /\ pc = "matched"
    /\ steps >= 1
    /\ steps + 1 < Len(text)
    /\ current_state \in dfa[1].accepts
    /\ ~result

\* C4: for every malformed pattern (an unbalanced parenthesis, an operator
\* with no operand, trailing unconsumed input) Regex::new returns Err with a
\* message and builds no automaton.
C4_MalformedIsErr ==
    (pc # "new" /\ Malformed(pattern)) =>
      /\ pc = "err"
      /\ parsed[1].kind = "err"
      /\ parsed[1].msg # ""
      /\ nfa = None
      /\ dfa = None

\* C5: for every pattern string Regex::new finishes with Ok(automaton) or
\* with the parser's Err.
C5_CompileTotal ==
    pc # "new" => parsed[1].kind \in {"ok", "err"}

\* C6: a backslash followed by any character x yields the literal token x,
\* and the backslash is not part of the language: a\x matches exactly ax,
\* and a\\c matches exactly a\c.
C6_Escape ==
    /\ \A i \in 1..(Len(pattern) - 1) :
          pattern[i] = "\\" =>
            scan(pattern, i) = [token |-> Character(pattern[i + 1]),
                                pos |-> i + 2, panicked |-> FALSE]
    /\ (pc = "matched" /\ Len(pattern) = 3 /\ pattern[1] = "a"
          /\ pattern[2] = "\\") =>
         (result <=> text = <<"a", pattern[3]>>)
    /\ (pc = "matched" /\ pattern = <<"a", "\\", "\\", "c">>) =>
         (result <=> text = <<"a", "\\", "c">>)

\* C6's case: the pattern a\* has accepted the text a*.
C6_Witness ==
    /\ pc = "matched"
    /\ pattern = <<"a", "\\", "*">>
    /\ text = <<"a", "*">>
    /\ result

PlusPattern == <<"(", "a", "b", "|", "b", "a", ")", "+">>

\* C7: Regex::new("(ab|ba)+") compiles, and its matches accepts "ab" and
\* "baabba" and rejects "babab", the empty string and "b".
C7_PlusRepeats ==
    pattern = PlusPattern =>
      /\ pc \notin {"err", "panic"}
      /\ (pc = "matched" /\ text \in {<<"a", "b">>,
                                      <<"b", "a", "a", "b", "b", "a">>})
           => result
      /\ (pc = "matched" /\ text \in {<<"b", "a", "b", "a", "b">>, <<>>,
                                      <<"b">>})
           => ~result

RepeatPattern ==
    <<"(", "a", "b", "|", "b", "a", ")", "(", "a", "b", "|", "b", "a", ")", "*">>

\* C8, as stated: for the pattern (ab|ba)(ab|ba)*, matches rejects abba and
\* accepts abab.
C8_AsStated ==
    (pattern = RepeatPattern /\ pc = "matched") =>
      /\ text = <<"a", "b", "b", "a">> => ~result
      /\ text = <<"a", "b", "a", "b">> => result

\* C8, amended: for the pattern (ab|ba)(ab|ba)*, matches accepts abba and
\* accepts abab.
C8_AcceptsBoth ==
    (pattern = RepeatPattern /\ pc = "matched") =>
      /\ text = <<"a", "b", "b", "a">> => result
      /\ text = <<"a", "b", "a", "b">> => result

\* C8's case: the pattern (ab|ba)(ab|ba)* has been matched against abba.
C8_Witness ==
    /\ pattern = RepeatPattern
    /\ pc = "matched"
    /\ text = <<"a", "b", "b", "a">>
    /\ result

\* C9: get_state returns the same identifier for any two lists that are
\* equal as sets, whatever their order and their duplicates, after any
\* earlier calls.
C9_SameSetSameId ==
    \A i, j \in DOMAIN calls :
       Range(calls[i].states) = Range(calls[j].states)
         => calls[i].state = calls[j].state

SetsBefore(i) == {Range(calls[j].states) : j \in 1..(i - 1)}

\* C10: sets that differ have different identifiers, the k-th distinct set
\* seen has identifier k, and a lookup of a known set returns its old
\* identifier without advancing the counter.
C10_SequentialIds ==
    \A i \in DOMAIN calls :
       LET S == Range(calls[i].states) IN
       /\ \A j \in DOMAIN calls :
             Range(calls[j].states) # S => calls[j].state # calls[i].state
       /\ S \notin SetsBefore(i) =>
             /\ calls[i].state = Cardinality(SetsBefore(i))
             /\ calls[i].count = Cardinality(SetsBefore(i)) + 1
       /\ S \in SetsBefore(i) =>
             /\ \E j \in 1..(i - 1) :
                   /\ Range(calls[j].states) = S
                   /\ calls[j].state = calls[i].state
             /\ calls[i].count = Cardinality(SetsBefore(i))

EmptyBranchPattern == <<"a", "(", "b", "|", ")">>

\* C11: an empty alternative branch parses to the Empty node and matches the
\* empty string at that position: x| parses to Union(Character x, Empty),
\* and a(b|) accepts a and ab and rejects abb.
C11_EmptyBranch ==
    /\ (pc # "new" /\ Len(pattern) = 2 /\ pattern[1] \in {"a", "b"}
          /\ pattern[2] = "|") =>
         parsed[1] = [kind |-> "ok",
                      node |-> NodeUnion(NodeCharacter(pattern[1]),
                                         NodeEmpty)]
    /\ (pc # "new" /\ pattern = EmptyBranchPattern) =>
         parsed[1] = [kind |-> "ok",
                      node |-> NodeConcat(
                                 NodeCharacter("a"),
                                 NodeUnion(NodeCharacter("b"), NodeEmpty))]
    /\ (pc = "matched" /\ pattern = EmptyBranchPattern) =>
         /\ text \in {<<"a">>, <<"a", "b">>} => result
         /\ text = <<"a", "b", "b">> => ~result

\* C11's case: a(b|) has accepted a, the empty branch taken after the a.
C11_Witness ==
    /\ pc = "matched"
    /\ pattern = EmptyBranchPattern
    /\ text = <<"a">>
    /\ result

RECURSIVE Tokens(_, _)
\* The tokens Lexer::scan yields from the i-th character on, EndOfFile left
\* out.
Tokens(s, i) ==
    LET r == scan(s, i)
    IN IF r.panicked \/ r.token.type = "EndOfFile" THEN <<>>
       ELSE <<r.token>> \o Tokens(s, r.pos)

\* How many of the first n tokens have the given type.
CountType(toks, type, n) ==
    Cardinality({i \in 1..n : toks[i].type = type})

\* Whether the first n tokens close every parenthesis they open.
Balanced(toks, n) ==
    CountType(toks, "LeftParen", n) = CountType(toks, "RightParen", n)

RECURSIVE Grouping(_, _)
\* The tree the precedence rules give a well-formed token sequence, found by
\* splitting and not by descent.  "alternatives": split at the first '|'
\* outside every parenthesis; the operands are the whole sequences on either
\* side.  "sequence": the first factor is one character or one parenthesised
\* group, a '*' right after it applies to that factor alone, and what
\* follows is concatenated.
Grouping(rule, toks) ==
    CASE rule = "alternatives" ->
           LET bars == {i \in 1..Len(toks) :
                          /\ toks[i].type = "UnionOperator"
                          /\ Balanced(toks, i - 1)}
           IN IF bars = {} THEN Grouping("sequence", toks)
              ELSE LET i == CHOOSE i \in bars : \A j \in bars : i <= j
                   IN NodeUnion(
                        Grouping("sequence", SubSeq(toks, 1, i - 1)),
                        Grouping("alternatives",
                                 SubSeq(toks, i + 1, Len(toks))))
      [] rule = "sequence" ->
           IF toks = <<>> THEN NodeEmpty
           ELSE LET ends == {j \in 1..Len(toks) : Balanced(toks, j)}
                    j == CHOOSE j \in ends : \A k \in ends : j <= k
                    unit == IF toks[1].type = "Character"
                            THEN NodeCharacter(toks[1].char)
                            ELSE Grouping("alternatives",
                                          SubSeq(toks, 2, j - 1))
                    starred == /\ j < Len(toks)
                               /\ toks[j + 1].type = "StarOperator"
                    item == IF starred THEN NodeStar(unit) ELSE unit
                    rest == SubSeq(toks, IF starred THEN j + 2 ELSE j + 1,
                                   Len(toks))
                IN IF rest = <<>> THEN item
                   ELSE NodeConcat(item, Grouping("sequence", rest))

RECURSIVE RightNest(_)
\* The tree with every chain of Concat nodes re-associated to the right:
\* trees that differ only in how a concatenation is nested become equal.
RightNest(node) ==
    CASE node.type = "Concat" ->
           IF node.node1.type = "Concat"
           THEN RightNest(NodeConcat(node.node1.node1,
                                     NodeConcat(node.node1.node2,
                                                node.node2)))
           ELSE NodeConcat(RightNest(node.node1), RightNest(node.node2))
      [] node.type = "Union" ->
           NodeUnion(RightNest(node.node1), RightNest(node.node2))
      [] node.type = "Star" -> NodeStar(RightNest(node.node))
      [] OTHER -> node

PrecedencePattern == <<"a", "|", "(", "b", "c", ")", "*">>

\* C12: star binds tighter than concatenation and concatenation tighter than
\* union, parentheses overriding: every well-formed pattern parses to the
\* tree in which a Star holds only the single preceding factor and a Union's
\* operands are whole sequences, and a|(bc)* parses to
\* Union(a, Star(Concat(b, c))).
C12_Precedence ==
    (pc # "new" /\ ~Malformed(pattern) /\ ~LoneBackslash(pattern, 1)) =>
      /\ parsed[1].kind = "ok"
      /\ RightNest(parsed[1].node)
           = RightNest(Grouping("alternatives", Tokens(pattern, 1)))
      /\ pattern = PrecedencePattern =>
           parsed[1].node
             = NodeUnion(NodeCharacter("a"),
                         NodeStar(NodeConcat(NodeCharacter("b"),
                                             NodeCharacter("c"))))

\* C12's case: a|(bc)* has been parsed.
C12_Witness ==
    /\ pc # "new"
    /\ pattern = PrecedencePattern
    /\ parsed[1].kind = "ok"
    /\ parsed[1].node.node2.type = "Star"

\* C13: during the work-list exploration of from_nfa no canonical DFA state
\* is visited twice: the list popped next never stands for a state that is
\* in visited already (visited holds exactly the states popped so far).
C13_VisitedOnce ==
    (pc = "explore" /\ waiting # <<>>) =>
      get_state(context, waiting[Len(waiting)]).state \notin visited

\* The states an NFA mentions.
StatesOf(n) ==
    {n.start} \cup n.accepts \cup {e[1] : e \in n.transition}
      \cup {e[3] : e \in n.transition}

\* C14: from_nfa terminates on every finite NFA, epsilon cycles, self-loops
\* and diamonds included.  Every iteration of the start closure walk pops
\* a state not popped before (those after the first element of ret) or else
\* shortens the stack, and every iteration of the work-list loop adds a
\* state to visited or else shortens the work-list; ret holds only states of
\* the NFA and visited only identifiers of sets of them, so neither loop can
\* go on for ever.  (A per-symbol
\* closure walk runs inside one iteration of the work-list loop: an
\* iteration taken is a walk that finished.)
C14_Terminates ==
    [][/\ (pc = "closure" /\ pc' = "closure") =>
            /\ Range(ret') \subseteq StatesOf(nfa[1])
            /\ Range(Tail(ret)) \subseteq Range(Tail(ret'))
            /\ \/ Range(Tail(ret')) # Range(Tail(ret))
               \/ Len(stack') < Len(stack)
       /\ (pc = "explore" /\ pc' = "explore") =>
            /\ visited' \subseteq {e[2] : e \in context'.state_map}
            /\ \A e \in context'.state_map :
                  Range(e[1]) \subseteq StatesOf(nfa[1])
            /\ visited \subseteq visited'
            /\ \/ visited' # visited
               \/ Len(waiting') < Len(waiting)]_vars

\* C14's case: from_nfa has returned for an NFA with an epsilon cycle.
C14_Witness ==
    /\ pc = "ready"
    /\ \E S \in SUBSET {e \in nfa[1].transition : e[2] = None} :
          /\ S # {}
          /\ {e[1] : e \in S} = {e[3] : e \in S}

\* The DFA states a DFA mentions.
DfaStatesOf(d) ==
    {d.start} \cup d.accepts \cup {e[1] : e \in d.transition}
      \cup {e[3] : e \in d.transition}

\* C15: in the DFA from_nfa returns, a DFA state is accepting if and only if
\* its underlying set of NFA states holds an accepting state of the NFA, for
\* every state of the state-identity map and of the DFA, in whatever order
\* the states were discovered.
C15_AcceptsIffMember ==
    pc = "ready" =>
      /\ DfaStatesOf(dfa[1]) \subseteq {e[2] : e \in context.state_map}
      /\ \A e \in context.state_map :
            e[2] \in dfa[1].accepts
              <=> Range(e[1]) \cap nfa[1].accepts # {}

\* C15's case: a returned DFA with an accepting state whose set holds an
\* accepting NFA state that is not its least member, and a state that is not
\* accepting.
C15_Witness ==
    /\ pc = "ready"
    /\ \E e \in context.state_map :
          /\ e[2] \in dfa[1].accepts
          /\ Len(e[1]) >= 2
          /\ e[1][1] \notin nfa[1].accepts
    /\ \E e \in context.state_map : e[2] \notin dfa[1].accepts

\* C16: two DFA states are equal if and only if their underlying sets of NFA
\* states are equal as sets: at no point of the build do two entries of the
\* state-identity map, the start closure's included, hold the same set under
\* different identifiers or different sets under one.
C16_OneIdPerSet ==
    \A e1, e2 \in context.state_map :
       Range(e1[1]) = Range(e2[1]) <=> e1[2] = e2[2]

\* C17: epsilon-closure is idempotent in from_nfa: the start set is the
\* epsilon-closure of {nfa.start}, and the set under every DFA state, every
\* transition target included, is closed under epsilon edges, so closing it
\* again adds no state.
C17_ClosureIdempotent ==
    /\ start # None =>
         SetsOf(context, start[1])
           = {EpsClosure(nfa[1], {nfa[1].start})}
    /\ pc \in {"explore", "ready"} =>
         /\ \A e \in context.state_map :
               EpsClosure(nfa[1], Range(e[1])) = Range(e[1])
         /\ \A e \in transition :
               \E k \in context.state_map :
                  /\ k[2] = e[3]
                  /\ EpsClosure(nfa[1], Range(k[1])) = Range(k[1])

\* C17's case: a returned DFA with a transition whose target set holds a
\* state reached only through two epsilon edges in a row.
C17_Witness ==
    /\ pc = "ready"
    /\ \E e \in transition, k \in context.state_map :
          /\ k[2] = e[3]
          /\ \E q \in Range(k[1]), e1, e2 \in nfa[1].transition :
                /\ e1[2] = None /\ e2[2] = None
                /\ e1[3] = e2[1] /\ e2[3] = q
                /\ e1[1] # e2[1] /\ e2[1] # q /\ e1[1] # q
                /\ \A t \in nfa[1].transition : t[3] = q => t = e2

RECURSIVE Allocations(_)
\* How many states the rules allocate for a tree: two for a Character or an
\* Empty, one for a Star or a Union on top of its operands', none for a
\* Concat.
Allocations(node) ==
    CASE node.type \in {"Character", "Empty"} -> 2
      [] node.type = "Star" -> Allocations(node.node) + 1
      [] node.type = "Union" ->
           Allocations(node.node1) + Allocations(node.node2) + 1
      [] node.type = "Concat" ->
           Allocations(node.node1) + Allocations(node.node2)

RECURSIVE SiblingsDisjoint(_, _)
\* Whether, in the build of node from ctx, the two fragments of every
\* Union and Concat share no state.
SiblingsDisjoint(node, ctx) ==
    CASE node.type \in {"Character", "Empty"} -> TRUE
      [] node.type = "Star" -> SiblingsDisjoint(node.node, ctx)
      [] OTHER ->
           LET f1 == assemble(node.node1, ctx)
               f2 == assemble(node.node2, f1.context)
           IN /\ StatesOf(f1.nfa) \cap StatesOf(f2.nfa) = {}
              /\ SiblingsDisjoint(node.node1, ctx)
              /\ SiblingsDisjoint(node.node2, f1.context)

\* C18: for every tree T, from_node(T) allocates each state identifier
\* exactly once, 0, 1, 2, ... from one counter, so that sibling fragments
\* share no state; it has one start state, and every state that is not
\* accepting is the source or the target of a transition.
C18_StatesAllocatedOnce ==
    nfa # None =>
      LET node == parsed[1].node
          n == nfa[1]
          count == assemble(node, NfaContextNew).context.state_count
      IN /\ count = Allocations(node)
         /\ StatesOf(n) = 0..(count - 1)
         /\ SiblingsDisjoint(node, NfaContextNew)
         /\ n.start \in 0..(count - 1)
         /\ \A q \in (0..(count - 1)) \ n.accepts :
               \E e \in n.transition : e[1] = q \/ e[3] = q

\* C18's case: the NFA of a Concat of a Union and a Star, each with
\* operands of its own.
C18_Witness ==
    /\ nfa # None
    /\ parsed[1].node.type = "Concat"
    /\ parsed[1].node.node1.type = "Union"
    /\ parsed[1].node.node2.type = "Star"
    /\ Allocations(parsed[1].node) >= 10

RECURSIVE FollowsRules(_, _)
\* Whether the fragment assemble builds for node from ctx, and that of every
\* node below it, is the one its rule prescribes, no state and no edge more.
FollowsRules(node, ctx) ==
    LET built == assemble(node, ctx)
        N == built.nfa
        fresh == ctx.state_count..(built.context.state_count - 1)
    IN CASE node.type \in {"Character", "Empty"} ->
              \E s, a \in fresh :
                 /\ s # a
                 /\ fresh = {s, a}
                 /\ N = [start |-> s, accepts |-> {a},
                         transition |->
                           {<<s,
                              IF node.type = "Empty" THEN None
                              ELSE Some(node.char),
                              a>>}]
         [] node.type = "Star" ->
              LET F == assemble(node.node, ctx).nfa
                  s == N.start
              IN /\ FollowsRules(node.node, ctx)
                 /\ s \in fresh
                 /\ s \notin StatesOf(F)
                 /\ StatesOf(N) = StatesOf(F) \cup {s}
                 /\ N.accepts = F.accepts \cup {s}
                 /\ N.transition
                      = F.transition \cup {<<s, None, F.start>>}
                          \cup {<<x, None, F.start>> : x \in F.accepts}
         [] node.type = "Union" ->
              LET f1 == assemble(node.node1, ctx)
                  L == f1.nfa
                  R == assemble(node.node2, f1.context).nfa
                  s == N.start
              IN /\ FollowsRules(node.node1, ctx)
                 /\ FollowsRules(node.node2, f1.context)
                 /\ s \in fresh
                 /\ s \notin StatesOf(L) \cup StatesOf(R)
                 /\ StatesOf(N) = StatesOf(L) \cup StatesOf(R) \cup {s}
                 /\ N.accepts = L.accepts \cup R.accepts
                 /\ N.transition
                      = L.transition \cup R.transition
                          \cup {<<s, None, L.start>>, <<s, None, R.start>>}
         [] node.type = "Concat" ->
              LET f1 == assemble(node.node1, ctx)
                  L == f1.nfa
                  R == assemble(node.node2, f1.context).nfa
              IN /\ FollowsRules(node.node1, ctx)
                 /\ FollowsRules(node.node2, f1.context)
                 /\ StatesOf(N) = StatesOf(L) \cup StatesOf(R)
                 /\ N.start = L.start
                 /\ N.accepts = R.accepts
                 /\ N.transition
                      = L.transition \cup R.transition
                          \cup {<<x, None, R.start>> : x \in L.accepts}

\* C19: Node::assemble builds exactly the fragment each rule prescribes and
\* nothing more: a Character and an Empty give two fresh states and one
\* edge; Star(F) adds one fresh start s, the edge s -eps-> F.start and an
\* edge x -eps-> F.start for every x in F.accepts, with accepts F.accepts
\* and s; Union adds one fresh start with epsilon edges to both sub-starts
\* and the union of the accepts; Concat adds an edge x -eps-> R.start for
\* every x in L.accepts, with start L.start and accepts R.accepts; the
\* transitions of the sub-fragments are kept.
C19_FragmentsByRule ==
    nfa # None =>
      /\ nfa[1] = assemble(parsed[1].node, NfaContextNew).nfa
      /\ FollowsRules(parsed[1].node, NfaContextNew)

\* C19's case: the NFA of a tree with a Star, a Union, a Concat, a Character
\* and an Empty.
C19_Witness ==
    /\ nfa # None
    /\ pattern = <<"(", "a", "|", ")", "*", "b">>
    /\ parsed[1].node
         = NodeConcat(NodeStar(NodeUnion(NodeCharacter("a"), NodeEmpty)),
                      NodeCharacter("b"))

\* The patterns of three literal characters.
ThreeFactors(s) ==
    Len(s) = 3 /\ \A i \in 1..3 : s[i] \notin {"(", ")", "|", "*", "\\"}

FourFactorPattern == <<"a", "b", "c", "d">>

\* C20, as stated: implicit concatenation is left-nested: a sequence of
\* three factors x y z parses to Concat(Concat(x, y), z), and abcd to
\* Concat(Concat(Concat(a, b), c), d).
C20_LeftNested ==
    pc # "new" =>
      /\ ThreeFactors(pattern) =>
           parsed[1]
             = [kind |-> "ok",
                node |-> NodeConcat(
                           NodeConcat(NodeCharacter(pattern[1]),
                                      NodeCharacter(pattern[2])),
                           NodeCharacter(pattern[3]))]
      /\ pattern = FourFactorPattern =>
           parsed[1]
             = [kind |-> "ok",
                node |-> NodeConcat(
                           NodeConcat(
                             NodeConcat(NodeCharacter("a"),
                                        NodeCharacter("b")),
                             NodeCharacter("c")),
                           NodeCharacter("d"))]

\* C20, amended: implicit concatenation is right-nested: a sequence of three
\* factors x y z parses to Concat(x, Concat(y, z)), and abcd to
\* Concat(a, Concat(b, Concat(c, d))).
C20_RightNested ==
    pc # "new" =>
      /\ ThreeFactors(pattern) =>
           parsed[1]
             = [kind |-> "ok",
                node |-> NodeConcat(
                           NodeCharacter(pattern[1]),
                           NodeConcat(NodeCharacter(pattern[2]),
                                      NodeCharacter(pattern[3])))]
      /\ pattern = FourFactorPattern =>
           parsed[1]
             = [kind |-> "ok",
                node |-> NodeConcat(
                           NodeCharacter("a"),
                           NodeConcat(
                             NodeCharacter("b"),
                             NodeConcat(NodeCharacter("c"),
                                        NodeCharacter("d"))))]

\* C20's case: abc has been parsed.
C20_Witness ==
    /\ pc # "new"
    /\ pattern = <<"a", "b", "c">>
    /\ parsed[1].kind = "ok"
    /\ parsed[1].node.type = "Concat"

\* C21: Regex::matches leaves the compiled DFA (start, accepts, transition
\* table) unchanged, so in any interleaving of match calls on one compiled
\* Regex every call returns, for its text, what a single isolated call
\* returns.
C21_ReadersIndependent ==
    [][/\ dfa # None => dfa' = dfa
       /\ \A r \in Readers :
             calls'[r].status = "done" =>
               calls'[r].result = matches(dfa'[1], calls'[r].text).result]_vars

\* C21's case: one call has returned true while another, on a different
\* text, is in the middle of its loop.
C21_Witness ==
    /\ pc = "ready"
    /\ calls["r1"].status = "done"
    /\ calls["r1"].result
    /\ Len(calls["r1"].text) >= 2
    /\ calls["r2"].status = "running"
    /\ calls["r2"].i = 2
    /\ calls["r2"].text # calls["r1"].text

RECURSIVE ReachableFrom(_, _)
\* The DFA states the transition table leads to from those of S.
ReachableFrom(d, S) ==
    LET more == S \cup {e[3] : e \in {t \in d.transition : t[1] \in S}}
    IN IF more = S THEN S ELSE ReachableFrom(d, more)

\* The symbols on the edges of an NFA.
SymbolsOf(n) == {e[2][1] : e \in {e \in n.transition : e[2] # None}}

\* C22: the empty set of NFA states is never materialised by from_nfa: every
\* DFA state that is the start, a source or target of a transition or in
\* accepts stands for a non-empty set of NFA states and is reachable from
\* the start state through the transition table, and a state has a table
\* entry for a symbol only where a member of its set has an edge for it.
C22_NoEmptyState ==
    pc = "ready" =>
      LET d == dfa[1] IN
      /\ \A id \in DfaStatesOf(d) :
            /\ SetsOf(context, id) # {}
            /\ {} \notin SetsOf(context, id)
      /\ \A e \in context.state_map : e[1] # <<>>
      /\ DfaStatesOf(d) \subseteq ReachableFrom(d, {d.start})
      /\ \A e \in context.state_map, c \in SymbolsOf(nfa[1]) :
            (\E t \in d.transition : t[1] = e[2] /\ t[2] = c)
              <=> Move(nfa[1], Range(e[1]), c) # {}

\* C22's case: a returned DFA with a state that has a transition for one
\* symbol and none for another symbol of the NFA.
C22_Witness ==
    /\ pc = "ready"
    /\ \E e \in context.state_map, c1, c2 \in SymbolsOf(nfa[1]) :
          /\ \E t \in dfa[1].transition : t[1] = e[2] /\ t[2] = c1
          /\ ~\E t \in dfa[1].transition : t[1] = e[2] /\ t[2] = c2

RECURSIVE StartsWithoutIncoming(_, _)
\* Whether, in the build of node from ctx, the fragment of node and of every
\* node below it has no edge of its own into its own start state.
StartsWithoutIncoming(node, ctx) ==
    LET N == assemble(node, ctx).nfa
        here == \A e \in N.transition : e[3] # N.start
    IN CASE node.type \in {"Character", "Empty"} -> here
         [] node.type = "Star" ->
              here /\ StartsWithoutIncoming(node.node, ctx)
         [] OTHER ->
              /\ here
              /\ StartsWithoutIncoming(node.node1, ctx)
              /\ StartsWithoutIncoming(
                   node.node2, assemble(node.node1, ctx).context)

\* C23: in every NFA from_node builds from an expression tree no state has
\* both a symbol edge and an epsilon edge going out: the source of a symbol
\* edge has that one outgoing edge and no other, and the start state of
\* every fragment has no incoming edge from inside that fragment.
C23_SymbolSourcesUnmixed ==
    nfa # None =>
      /\ \A e1, e2 \in nfa[1].transition :
            e1[1] = e2[1] => (e1[2] = None <=> e2[2] = None)
      /\ \A e \in nfa[1].transition :
            e[2] # None =>
              {t \in nfa[1].transition : t[1] = e[1]} = {e}
      /\ StartsWithoutIncoming(parsed[1].node, NfaContextNew)

\* C23's case: the NFA of a star of a star, where the inner start state, an
\* accepting state, has an epsilon edge to itself.
C23_Witness ==
    /\ nfa # None
    /\ pattern = <<"(", "a", "*", ")", "*">>
    /\ \E e \in nfa[1].transition : e[1] = e[3] /\ e[2] = None
    /\ \E e \in nfa[1].transition : e[2] # None

\* C24: the result of matches does not depend on the iteration order of the
\* hash sets and maps used during construction: whatever order a build of a
\* pattern pops, pushes and numbers states in, its DFA accepts exactly the
\* strings the pattern's NFA accepts, which no order enters into, so any two
\* builds of one pattern accept the same strings.
C24_OrderIndependent ==
    pc = "ready" =>
      \A t \in Texts :
         matches(dfa[1], t).result
           <=> NfaAccepts(from_node(parse(pattern).node), t)

\* C24's case: a build that numbered the b-successor of the start state
\* before its a-successor, where iterating a first numbers them the other
\* way round.
C24_Witness ==
    /\ pc = "ready"
    /\ \E ea, eb \in dfa[1].transition :
          /\ ea[1] = dfa[1].start /\ ea[2] = "a"
          /\ eb[1] = dfa[1].start /\ eb[2] = "b"
          /\ eb[3] < ea[3]
    /\ \E t \in Texts : matches(dfa[1], t).result

(***************************************************************************)
(* Supporting invariants: where the refuted statements do hold.            *)
(***************************************************************************)
\* Of the patterns whose scan does not panic, exactly the malformed ones end
\* in Err, with a message and no automaton.
ParserRejectsMalformed ==
    (pc # "new" /\ parsed[1].kind # "panic") =>
      /\ parsed[1].kind = "err" <=> Malformed(pattern)
      /\ parsed[1].kind = "err" =>
           pc = "err" /\ parsed[1].msg # "" /\ nfa = None /\ dfa = None

\* Only a pattern ending in a backslash that escapes nothing panics.
PanicOnlyOnLoneBackslash ==
    (pc # "new" /\ parsed[1].kind = "panic") => LoneBackslash(pattern, 1)

\* No state of the NFA has both a symbol edge and an epsilon edge.
NoMixedState(n) ==
    \A e1, e2 \in n.transition :
       e1[1] = e2[1] => (e1[2] = None <=> e2[2] = None)

\* from_nfa is right on every NFA without such a state.
DfaEquivalentUnlessMixed ==
    NoMixedState(nfa[1]) => C2_DfaEquivalent

\* get_state is canonical and sequential on lists without duplicates.
CanonicalWithoutDuplicates ==
    (\A i \in DOMAIN calls :
        Cardinality(Range(calls[i].states)) = Len(calls[i].states))
      => C9_SameSetSameId /\ C10_SequentialIds

\* The start state of every DFA from_nfa returns is DFAState(0).
StartIsZero == dfa # None => dfa[1].start = 0

====
